---- MODULE Spec2Model ----
(***************************************************************************)
(* kappa: Context (orchestrator), Function and Role.                       *)
(*                                                                         *)
(* Every remote (boto) call is one step.  A mutating remote call either    *)
(* succeeds or raises botocore's ClientError; a lookup of a resource that  *)
(* does not exist raises ClientError.  `calls` is the log of the remote    *)
(* calls and sleeps of the operation in progress, in the order issued.     *)
(* kappa.policy, kappa.event_source and kappa.log are modelled from the    *)
(* specification: their calls are single remote calls whose failure is     *)
(* logged and not propagated.                                              *)
(*                                                                         *)
(* Function's properties (runtime, timeout, memory_size) and the payload   *)
(* handling of the invocations are functions of the configuration, the     *)
(* source directory and the environment; texts (file names, payloads,      *)
(* environment values) are sequences of characters, and str.endswith,      *)
(* int() and json.loads are computed on them.  fn_lookups, fn_hits and     *)
(* hist record what happened over the lifetime of the Function and Role    *)
(* objects; no action reads them.                                          *)
(***************************************************************************)
EXTENDS Integers, Sequences, FiniteSets, TLC

\* Bounds of the model.
MaxPolicies == 2
MaxSources == 2
MaxPerms == 1
MaxFiles == 3
MaxLookups == 2
MaxPages == 2
MaxRuns == 2
MaxTimeout == 3
MaxClock == 4

None == "None"
\* An attribute that was never assigned: reading it raises AttributeError.
Undefined == "Undefined"

VARIABLES
    config,          \* the parsed configuration document
    lambda_config,   \* its lambda section, as Function reads it (Function._config)
    path_files,      \* os.listdir of the function's source directory
    environ,         \* the process environment when kappa.function is imported
    provider,        \* which calls of the provider may fail: see Outcomes
    roleListing,     \* list_roles: the number of pages, and the page of the role
    policies,        \* Context.policies
    role,            \* Context.role
    event_sources,   \* Context.event_sources
    function_arn,    \* Function._arn
    role_arn,        \* Role._arn
    fn_lookups,      \* identity lookups of the Function object so far (up to MaxLookups)
    fn_hits,         \* those that found the function
    remoteFn,        \* the provider's function: its ARN, or None
    remoteFnConf,    \* the provider's function configuration revision
    remoteRole,      \* the provider's role: its ARN, or None
    remoteInline,    \* the role has the inline CloudWatchLogs policy
    remoteAttached,  \* policies attached to the role
    remotePolicies,  \* policies that exist at the provider
    op,              \* the public operation in progress
    pc,              \* position inside it
    idx,             \* loop index of the loop in progress
    calls,           \* remote calls and sleeps issued by the operation
    result,          \* "none" while running, "returned", or the exception raised
    status,          \* the dict built by Context.status()
    ret,             \* the value the last property read or call returned
    payload,         \* test_data as _get_test_data resolved it
    input,           \* the payload argument of the last invoke*, None if not given
    code,            \* Function.create's Code argument: "unset", "S3" or "ZipFile"
    hist,            \* consecutive Role.create calls: how many, their create_role
                     \* calls, and the role's remote state when the latest began
    now,             \* time.time(), in whole seconds
    context          \* the _FakeLambdaContext invoke_local built last

cfgVars == <<config, lambda_config, path_files, environ, provider, roleListing>>
localVars == <<ret, payload, input, hist, code>>
timeVars == <<now, context>>
ctxVars == <<policies, role, event_sources>>
fnCache == <<function_arn, fn_lookups, fn_hits>>
cacheVars == <<function_arn, fn_lookups, fn_hits, role_arn>>
fnRemote == <<remoteFn, remoteFnConf>>
roleRemote == <<remoteRole, remoteInline, remoteAttached>>
remoteVars == <<remoteFn, remoteFnConf, remoteRole, remoteInline, remoteAttached, remotePolicies>>
vars == <<config, lambda_config, path_files, environ, provider, roleListing,
          ret, payload, input, hist, code, policies,
          role, event_sources, function_arn, fn_lookups, fn_hits, role_arn,
          remoteFn, remoteFnConf, remoteRole, remoteInline, remoteAttached,
          remotePolicies, op, pc, idx, calls, result, status, now, context>>

(***************************************************************************)
(* Configuration                                                           *)
(***************************************************************************)
KnownSvc == {"kinesis", "s3", "sns", "dynamodb"}
OtherSvc == {"sqs"}

\* An event-source ARN as its colon-separated fields.
Arn(svc) == <<"arn", "aws", svc, "us-east-1", "123456789012", "res">>

Arns == {Arn(s) : s \in KnownSvc \cup OtherSvc}

SeqsUpTo(S, n) == UNION {[1..k -> S] : k \in 0..n}

\* iam.policy: absent, a single object, or a list of n objects.
\* iam.role: absent, true, false, or an object.
\* lambda.s3: absent, {bucket}, or {bucket, only: true}.
IamConfigs ==
    {[iam |-> FALSE, policy |-> "absent", n |-> 0, role |-> "absent"]}
    \cup {[iam |-> TRUE, policy |-> "absent", n |-> 0, role |-> r] :
            r \in {"absent", "true", "false", "object"}}
    \cup {[iam |-> TRUE, policy |-> "single", n |-> 1, role |-> r] :
            r \in {"absent", "true", "false", "object"}}
    \cup {[iam |-> TRUE, policy |-> "list", n |-> k, role |-> r] :
            k \in 0..MaxPolicies, r \in {"absent", "true", "false", "object"}}

Configs ==
    {[iam |-> i.iam, policy |-> i.policy, n |-> i.n, role |-> i.role,
      s3 |-> s, permissions |-> p, event_sources |-> e] :
        i \in IamConfigs, s \in {"absent", "bucket", "only"},
        p \in 0..MaxPerms, e \in SeqsUpTo(Arns, MaxSources)}

\* A configuration key or environment variable that may be missing: text
\* (Absent) or a number (NoNum).
Absent == [has |-> FALSE, v |-> <<>>]
NoNum == [has |-> FALSE, v |-> 0]
Some(v) == [has |-> TRUE, v |-> v]

\* Text, as the sequence of its characters.
Digits == <<"0", "1", "2", "3", "4", "5", "6", "7", "8", "9">>

\* The lambda section: runtime ("absent" when the key is missing), timeout,
\* memory_size, the contents of the test_data file, and what the handler does
\* ("echo" returns its event, "const" returns a fixed string).
PlainLambda == [runtime |-> "python2.7", timeout |-> NoNum,
                memory_size |-> NoNum, test_data |-> Absent, handler |-> "echo"]

NoEnviron == [n \in {"KAPPA_DEFAULT_TIMEOUT", "KAPPA_DEFAULT_MEMORY"} |-> Absent]

\* A function with an explicit runtime, no test data, in a plain environment.
PlainInputs ==
    /\ lambda_config = PlainLambda
    /\ path_files = {}
    /\ environ = NoEnviron

\* A provider any call of which may fail, listing its roles on one page.
PlainProvider ==
    /\ provider = "flaky"
    /\ roleListing = [pages |-> 1, at |-> 1]

\* Values returned to the caller.
\* t is the kind; s a name, n a number, x a text, k the key and vt the
\* value's kind of a one-member object.
NoValue == [t |-> "none", s |-> "", n |-> 0, x |-> <<>>, k |-> <<>>, vt |-> ""]
Str(x) == [NoValue EXCEPT !.t = "str", !.s = x]
Num(x) == [NoValue EXCEPT !.t = "int", !.n = x]
Bool(b) == [NoValue EXCEPT !.t = "bool", !.n = IF b THEN 1 ELSE 0]

\* No _FakeLambdaContext has been built yet.
NoContext == [made |-> FALSE, timeout |-> 0, start |-> 0]

\* No Role.create call yet.
NoHist == [runs |-> 0, creates |-> 0, fresh |-> FALSE,
           start |-> [role |-> None, inline |-> FALSE, attached |-> {}]]

\* The outcomes of a remote call that can only succeed when pre holds: a
\* "flaky" provider may fail any call; a "listing" provider answers every
\* list_roles request and may fail the others; a "healthy" provider fails
\* a call only when pre does not hold.
Outcomes(pre) == IF provider = "healthy" THEN {pre} ELSE {b \in BOOLEAN : b => pre}
ListingOutcomes == IF provider = "flaky" THEN BOOLEAN ELSE {TRUE}

\* What a lookup returns: the resource's identity, or None.
Found(r) == IF r = None THEN NoValue ELSE Str(r)

(***************************************************************************)
(* Helpers                                                                 *)
(***************************************************************************)
\* Python truthiness of Context.policies: None and [] are both false.
Truthy(p) == ~p.none /\ Len(p.items) > 0

NoPolicies == [none |-> TRUE, items |-> <<>>]

NoStatus == [policies |-> [set |-> FALSE, none |-> TRUE, items |-> <<>>],
             role |-> "unset", function |-> "unset",
             event_sources |-> [set |-> FALSE, items |-> <<>>]]

Log(c) == Append(calls, c)

Idle == pc \in {"idle", "done"}

\* Continue at label l; "done" is a normal return of the public operation.
Goto(l) ==
    /\ pc' = l
    /\ result' = IF l = "done" THEN "returned" ELSE "none"

\* The exception e propagates out of the public operation.
Raise(e) ==
    /\ pc' = "done"
    /\ result' = e

\* A public operation starts at label l with an empty call log.
Begin(o, l, i) ==
    /\ Idle
    /\ op' = o
    /\ pc' = l
    /\ idx' = i
    /\ calls' = <<>>
    /\ result' = "none"
    /\ status' = NoStatus
    /\ ret' = NoValue
    /\ code' = "unset"

\* Before construction: no Context yet, nothing cached, and the provider in
\* any state (a function, a role with attached policies, policies).
Init ==
    /\ config \in Configs
    /\ policies = NoPolicies
    /\ role = Undefined
    /\ event_sources = <<>>
    /\ function_arn = None
    /\ fn_lookups = 0
    /\ fn_hits = 0
    /\ role_arn = None
    /\ remoteFn \in {None, "arn:fn"}
    /\ remoteFnConf = IF remoteFn = None THEN None ELSE "created"
    /\ remoteRole \in {None, "arn:role"}
    /\ remoteInline = FALSE
    /\ remotePolicies \in SUBSET (1..config.n)
    /\ remoteAttached \in IF remoteRole = None THEN {{}} ELSE SUBSET remotePolicies
    /\ op = "none"
    /\ pc = "new"
    /\ idx = 0
    /\ calls = <<>>
    /\ result = "none"
    /\ status = NoStatus
    /\ ret = NoValue
    /\ payload = Absent
    /\ input = Absent
    /\ hist = NoHist
    /\ code = "unset"
    /\ now = 0
    /\ context = NoContext

(***************************************************************************)
(* Context.__init__                                                        *)
(***************************************************************************)
\* arn.split(':', 3): the first three fields and the remainder.
ArnSplit3(arn) == <<arn[1], arn[2], arn[3], SubSeq(arn, 4, Len(arn))>>

\* Faulty variant: the dynamodb branch is missing and sns builds the S3 variant.
EventSourceClassWrong(svc) ==
    CASE svc = "kinesis" -> "KinesisEventSource"
      [] svc = "s3" -> "S3EventSource"
      [] svc = "sns" -> "S3EventSource"
      [] OTHER -> "ValueError"

\* The class _create_event_sources builds for a producer segment.
EventSourceClass(svc) ==
    CASE svc = "kinesis" -> "KinesisEventSource"
      [] svc = "s3" -> "S3EventSource"
      [] svc = "sns" -> "SNSEventSource"
      [] svc = "dynamodb" -> "DynamoDBStreamEventSource"
      [] OTHER -> "ValueError"

InitPolicies(c) ==
    IF c.iam /\ c.policy # "absent"
    THEN [none |-> FALSE, items |-> [i \in 1..c.n |-> i]]
    ELSE NoPolicies

\* role: false leaves self.role unassigned.
InitRole(c) ==
    IF c.iam /\ c.role # "absent"
    THEN IF c.role = "false" THEN Undefined ELSE "Role"
    ELSE None

Context_init ==
    /\ pc = "new"
    /\ policies' = InitPolicies(config)
    /\ role' = InitRole(config)
    /\ LET srcs == config.event_sources
           cls == [i \in 1..Len(srcs) |-> EventSourceClass(ArnSplit3(srcs[i])[3])]
           bad == {i \in 1..Len(srcs) : cls[i] = "ValueError"}
           first == CHOOSE i \in bad : \A j \in bad : i <= j
       IN IF bad = {}
          THEN /\ event_sources' = cls
               /\ pc' = "idle"
               /\ result' = "returned"
          ELSE /\ event_sources' = SubSeq(cls, 1, first - 1)
               /\ pc' = "failed"
               /\ result' = "ValueError"
    /\ op' = "init"
    /\ UNCHANGED <<cfgVars, timeVars, localVars, cacheVars, remoteVars, idx, calls, status>>

(***************************************************************************)
(* Context.create / Context.deploy                                         *)
(***************************************************************************)
\* if self.policies: [policy.create() for policy in self.policies]
Context_create(o) ==
    /\ o \in {"create", "deploy"}
    /\ IF Truthy(policies)
       THEN Begin(o, "ctx_policies", 1)
       ELSE Begin(o, "ctx_role", 0)
    /\ UNCHANGED <<cfgVars, timeVars, payload, input, hist, ctxVars, cacheVars, remoteVars>>

\* kappa.policy.Policy.create / deploy: one provisioning call per policy.
Policy_create ==
    /\ pc = "ctx_policies"
    /\ \E ok \in BOOLEAN :
        /\ calls' = Log(IF op = "create" THEN "policy.create" ELSE "policy.deploy")
        /\ remotePolicies' = IF ok THEN remotePolicies \cup {policies.items[idx]}
                             ELSE remotePolicies
    /\ IF idx < Len(policies.items)
       THEN idx' = idx + 1 /\ Goto("ctx_policies")
       ELSE idx' = 0 /\ Goto("ctx_role")
    /\ UNCHANGED <<cfgVars, timeVars, localVars, ctxVars, cacheVars, fnRemote, roleRemote, op, status>>

\* if self.role: self.role.create()
Context_create_role ==
    /\ pc = "ctx_role"
    /\ CASE role = Undefined -> Raise("AttributeError")
         [] role = None -> Goto("ctx_sleep")
         [] OTHER -> Goto("role_exists")
    /\ UNCHANGED <<cfgVars, timeVars, localVars, ctxVars, cacheVars, remoteVars, op, idx, calls, status>>

\* Faulty variant: the role step's remote failure is not caught.
Role_create_catches_nothing(e) == FALSE

\* except ClientError in Role.create: the exceptions it catches.
Role_create_catches(e) == e = "ClientError"

\* Where Role.create returns to.
AfterRoleCreate == IF op \in {"create", "deploy"} THEN "ctx_sleep" ELSE "done"

\* if self._context.policies: the attach loop, else Role.create returns.
Role_create_attach_entry ==
    IF Truthy(policies)
    THEN idx' = 1 /\ Goto("role_attach")
    ELSE idx' = 0 /\ Goto(AfterRoleCreate)

\* Faulty variant: the scan stops after the first page.
IsTruncatedNever(fetched) == FALSE

\* response['IsTruncated'] of the page just fetched.
IsTruncated(fetched) == fetched < roleListing.pages

\* Role.exists over the roles _find_all_roles gathered: the role is among
\* them when it exists and its page was fetched.
RoleFound(fetched) == remoteRole # None /\ roleListing.at <= fetched

\* Role._find_all_roles, one list_roles request per step; idx counts the
\* pages fetched.  An exception ends the scan with the roles gathered so far.
Role_exists ==
    /\ pc = "role_exists"
    /\ \E ok \in ListingOutcomes :
        /\ calls' = Log("list_roles")
        /\ IF ok /\ IsTruncated(idx + 1)
           THEN idx' = idx + 1 /\ Goto("role_exists")
           ELSE IF RoleFound(IF ok THEN idx + 1 ELSE idx)
                THEN Role_create_attach_entry
                ELSE idx' = 0 /\ Goto("role_create_role")
    /\ UNCHANGED <<cfgVars, timeVars, localVars, ctxVars, cacheVars, remoteVars, op, status>>

Role_create_role ==
    /\ pc = "role_create_role"
    /\ \E ok \in Outcomes(remoteRole = None) :
        /\ calls' = Log("create_role")
        /\ hist' = IF op = "role.create"
                   THEN [hist EXCEPT !.creates = IF @ < MaxRuns THEN @ + 1 ELSE @]
                   ELSE hist
        /\ IF ok
           THEN /\ remoteRole' = "arn:role"
                /\ remoteInline' = FALSE
                /\ remoteAttached' = {}
                /\ idx' = 0
                /\ Goto("role_get_user")
           ELSE /\ UNCHANGED roleRemote
                /\ IF Role_create_catches("ClientError")
                   THEN Role_create_attach_entry
                   ELSE idx' = 0 /\ Raise("ClientError")
    /\ UNCHANGED <<cfgVars, timeVars, ret, payload, input, code, ctxVars, cacheVars, fnRemote, remotePolicies, op, status>>

Role_get_user ==
    /\ pc = "role_get_user"
    /\ \E ok \in Outcomes(TRUE) :
        /\ calls' = Log("get_user")
        /\ IF ok
           THEN idx' = 0 /\ Goto("role_put_role_policy")
           ELSE IF Role_create_catches("ClientError")
                THEN Role_create_attach_entry
                ELSE idx' = 0 /\ Raise("ClientError")
    /\ UNCHANGED <<cfgVars, timeVars, localVars, ctxVars, cacheVars, remoteVars, op, status>>

Role_put_role_policy ==
    /\ pc = "role_put_role_policy"
    /\ \E ok \in Outcomes(remoteRole # None) :
        /\ calls' = Log("put_role_policy")
        /\ remoteInline' = (remoteInline \/ ok)
        /\ IF ok \/ Role_create_catches("ClientError")
           THEN Role_create_attach_entry
           ELSE idx' = 0 /\ Raise("ClientError")
    /\ UNCHANGED <<cfgVars, timeVars, localVars, ctxVars, cacheVars, fnRemote, remoteRole, remoteAttached,
                   remotePolicies, op, status>>

\* The attach loop sits in one try block: the first ClientError ends it.
AttachContinues(ok) == ok /\ idx < Len(policies.items)

Role_attach_role_policy ==
    /\ pc = "role_attach"
    /\ \E ok \in Outcomes(remoteRole # None /\ policies.items[idx] \in remotePolicies) :
        /\ calls' = Log("attach_role_policy")
        /\ remoteAttached' = IF ok THEN remoteAttached \cup {policies.items[idx]}
                             ELSE remoteAttached
        /\ IF AttachContinues(ok)
           THEN idx' = idx + 1 /\ Goto("role_attach")
           ELSE IF ok \/ Role_create_catches("ClientError")
                THEN idx' = 0 /\ Goto(AfterRoleCreate)
                ELSE idx' = 0 /\ Raise("ClientError")
    /\ UNCHANGED <<cfgVars, timeVars, localVars, ctxVars, cacheVars, fnRemote, remoteRole, remoteInline,
                   remotePolicies, op, status>>

\* Where the settle wait of create / deploy leads.
AfterSleep == IF op = "create" THEN "fn_create" ELSE "fn_deploy"

\* time.sleep(5)
Context_sleep ==
    /\ pc = "ctx_sleep"
    /\ calls' = Log("sleep")
    /\ Goto(AfterSleep)
    /\ UNCHANGED <<cfgVars, timeVars, localVars, ctxVars, cacheVars, remoteVars, op, idx, status>>

(***************************************************************************)
(* Function                                                                *)
(***************************************************************************)
\* A counter of the model that stops at MaxLookups.
Counted(n, happened) == IF happened /\ n < MaxLookups THEN n + 1 ELSE n

\* Faulty variant: the identity the lookup returned is not kept.
get_function_arn_dropped == None

\* response['Configuration']['FunctionArn'], or the ClientError of a missing
\* function, which leaves _arn None.
get_function_arn == remoteFn

\* Faulty variant: the identity is looked up on every access.
FunctionArnNeverCached == FALSE

\* if self._arn is None: the remote identity lookup is skipped otherwise.
FunctionArnCached == function_arn # None

\* Function.arn: the lookup's failure (any Exception) leaves _arn None.
Function_arn ==
    IF FunctionArnCached
    THEN UNCHANGED <<calls, fnCache>>
    ELSE /\ calls' = Log("get_function")
         /\ function_arn' = get_function_arn
         /\ fn_lookups' = Counted(fn_lookups, TRUE)
         /\ fn_hits' = Counted(fn_hits, remoteFn # None)

RoleArnCached == role_arn # None

\* Role.arn
Role_arn ==
    IF RoleArnCached
    THEN UNCHANGED <<calls, role_arn>>
    ELSE /\ calls' = Log("get_role")
         /\ role_arn' = remoteRole

\* Faulty variant: deploy always creates.
DeployPathAlwaysCreate(arn) == "fn_create"

\* Function.deploy: update() if self.exists() else create().
DeployPath(arn) == IF arn # None THEN "fn_update" ELSE "fn_create"

Function_deploy ==
    /\ pc = "fn_deploy"
    /\ Function_arn
    /\ Goto(DeployPath(function_arn'))
    /\ UNCHANGED <<cfgVars, timeVars, localVars, ctxVars, role_arn, remoteVars, op, idx, status>>

\* Function.create up to the upload: exec_role = self._context.exec_role_arn
\* is self.role.arn, an AttributeError when the role slot holds no Role.
Function_create ==
    /\ pc = "fn_create"
    /\ IF role # "Role"
       THEN /\ Raise("AttributeError")
            /\ UNCHANGED <<calls, role_arn, code>>
       ELSE /\ Role_arn
            /\ IF config.s3 # "absent"
               THEN code' = "unset" /\ Goto("fn_put_object")
               ELSE code' = "ZipFile" /\ Goto("fn_create_function")
    /\ UNCHANGED <<cfgVars, timeVars, ret, payload, input, hist, ctxVars, fnCache, remoteVars, op, idx, status>>

\* self.add_permissions() after the with block; each grant's failure is
\* caught (except Exception) and changes nothing the model tracks.
Function_create_permissions_entry ==
    IF config.permissions > 0
    THEN idx' = 1 /\ Goto("fn_add_permission")
    ELSE idx' = 0 /\ Goto("done")

\* Faulty variant: a failed upload is logged and create() carries on.
UploadFailureContinues(ok) == FALSE

\* except Exception: ... return, in the upload's try block.
UploadFailureReturns(ok) == ~ok

\* A failed upload returns from create(); s3.only skips the registration.
Function_create_put_object ==
    /\ pc = "fn_put_object"
    /\ \E ok \in BOOLEAN :
        /\ calls' = Log("put_object")
        /\ code' = IF ok THEN "S3" ELSE code
        /\ IF UploadFailureReturns(ok)
           THEN idx' = 0 /\ Goto("done")
           ELSE IF config.s3 = "only"
                THEN Function_create_permissions_entry
                ELSE idx' = 0 /\ Goto("fn_create_function")
    /\ UNCHANGED <<cfgVars, timeVars, ret, payload, input, hist, ctxVars, cacheVars, remoteVars, op, status>>

Function_create_function ==
    /\ pc = "fn_create_function"
    /\ \E ok \in BOOLEAN :
        /\ ok => (remoteFn = None /\ role_arn # None)
        /\ calls' = Log("create_function")
        /\ remoteFn' = IF ok THEN "arn:fn" ELSE remoteFn
        /\ remoteFnConf' = IF ok THEN "created" ELSE remoteFnConf
    /\ Function_create_permissions_entry
    /\ UNCHANGED <<cfgVars, timeVars, localVars, ctxVars, cacheVars, roleRemote, remotePolicies, op, status>>

Function_add_permissions ==
    /\ pc = "fn_add_permission"
    /\ calls' = Log("add_permission")
    /\ IF idx < config.permissions
       THEN idx' = idx + 1 /\ Goto("fn_add_permission")
       ELSE idx' = 0 /\ Goto("done")
    /\ UNCHANGED <<cfgVars, timeVars, localVars, ctxVars, cacheVars, remoteVars, op, status>>

\* Function.update: the code push, then (in the same try) the configuration.
AfterUpdateCode(ok) == IF ok THEN "fn_update_role" ELSE "done"

Function_update ==
    /\ pc = "fn_update"
    /\ \E ok \in BOOLEAN :
        /\ ok => remoteFn # None
        /\ calls' = Log("update_function_code")
        /\ Goto(AfterUpdateCode(ok))
    /\ UNCHANGED <<cfgVars, timeVars, localVars, ctxVars, cacheVars, remoteVars, op, idx, status>>

\* Role=self._context.exec_role_arn is evaluated before the call is issued;
\* its AttributeError is caught by except Exception.
Function_update_exec_role ==
    /\ pc = "fn_update_role"
    /\ IF role # "Role"
       THEN /\ Goto("done")
            /\ UNCHANGED <<calls, role_arn>>
       ELSE /\ Role_arn
            /\ Goto("fn_update_configuration")
    /\ UNCHANGED <<cfgVars, timeVars, localVars, ctxVars, fnCache, remoteVars, op, idx, status>>

Function_update_configuration ==
    /\ pc = "fn_update_configuration"
    /\ \E ok \in BOOLEAN :
        /\ ok => remoteFn # None
        /\ calls' = Log("update_function_configuration")
        /\ remoteFnConf' = IF ok THEN "pushed" ELSE remoteFnConf
    /\ Goto("done")
    /\ UNCHANGED <<cfgVars, timeVars, localVars, ctxVars, cacheVars, remoteFn, roleRemote, remotePolicies,
                   op, idx, status>>

\* Context.update_code: self.function.update()
Context_update_code ==
    /\ Begin("update_code", "fn_update", 0)
    /\ UNCHANGED <<cfgVars, timeVars, payload, input, hist, ctxVars, cacheVars, remoteVars>>

\* Where Function.delete returns to.
AfterFunctionDelete == IF op = "delete" THEN "del_sleep1" ELSE "done"

Function_delete ==
    /\ pc = "fn_delete"
    /\ \E ok \in BOOLEAN :
        /\ ok => remoteFn # None
        /\ calls' = Log("delete_function")
        /\ remoteFn' = IF ok THEN None ELSE remoteFn
        /\ remoteFnConf' = IF ok THEN None ELSE remoteFnConf
    /\ Goto(AfterFunctionDelete)
    /\ UNCHANGED <<cfgVars, timeVars, localVars, ctxVars, cacheVars, roleRemote, remotePolicies, op, idx, status>>

\* Calls made on the Function and Role objects themselves.
Function_call(o) ==
    /\ o \in {"fn.deploy", "fn.create", "fn.delete", "fn.arn", "fn.exists", "fn.status"}
    /\ Begin(o, CASE o = "fn.deploy" -> "fn_deploy"
                  [] o = "fn.create" -> "fn_create"
                  [] o = "fn.delete" -> "fn_delete"
                  [] o = "fn.status" -> "st_function"
                  [] OTHER -> "fn_arn", 0)
    /\ UNCHANGED <<cfgVars, timeVars, payload, input, hist, ctxVars, cacheVars, remoteVars>>

Function_arn_access ==
    /\ pc = "fn_arn"
    /\ Function_arn
    /\ ret' = IF op = "fn.exists" THEN Bool(function_arn' # None) ELSE Found(function_arn')
    /\ Goto("done")
    /\ UNCHANGED <<cfgVars, timeVars, payload, input, hist, code, ctxVars, role_arn, remoteVars, op, idx, status>>

Role_call(o) ==
    /\ o \in {"role.arn", "role.status", "role.create", "role.delete"}
    /\ role = "Role"
    /\ Begin(o, CASE o = "role.status" -> "role_status"
                  [] o = "role.create" -> "role_exists"
                  [] o = "role.delete" -> "role_delete"
                  [] OTHER -> "role_arn", 0)
    /\ hist' = IF o = "role.create"
               THEN [runs |-> IF hist.runs < MaxRuns THEN hist.runs + 1 ELSE hist.runs,
                     creates |-> hist.creates,
                     fresh |-> IF hist.runs = 0 THEN remoteRole = None ELSE hist.fresh,
                     start |-> [role |-> remoteRole, inline |-> remoteInline,
                                attached |-> remoteAttached]]
               ELSE NoHist
    /\ UNCHANGED <<cfgVars, timeVars, payload, input, ctxVars, cacheVars, remoteVars>>

Role_arn_access ==
    /\ pc = "role_arn"
    /\ Role_arn
    /\ ret' = Found(role_arn')
    /\ Goto("done")
    /\ UNCHANGED <<cfgVars, timeVars, payload, input, hist, code, ctxVars, fnCache, remoteVars, op, idx, status>>

(***************************************************************************)
(* Context.delete                                                          *)
(***************************************************************************)
\* Faulty variant: delete() starts at the log channel, skipping the bindings.
Context_delete_skips_event_sources ==
    /\ Begin("delete", "del_log", 0)
    /\ UNCHANGED <<cfgVars, timeVars, payload, input, hist, ctxVars, cacheVars, remoteVars>>

Context_delete ==
    /\ IF Len(event_sources) > 0
       THEN Begin("delete", "del_event_sources", 1)
       ELSE Begin("delete", "del_log", 0)
    /\ UNCHANGED <<cfgVars, timeVars, payload, input, hist, ctxVars, cacheVars, remoteVars>>

\* kappa.event_source: remove(function), one removal call per binding.
EventSource_remove ==
    /\ pc = "del_event_sources"
    /\ calls' = Log("event_source.remove")
    /\ IF idx < Len(event_sources)
       THEN idx' = idx + 1 /\ Goto("del_event_sources")
       ELSE idx' = 0 /\ Goto("del_log")
    /\ UNCHANGED <<cfgVars, timeVars, localVars, ctxVars, cacheVars, remoteVars, op, status>>

\* kappa.log.Log.delete: the log group delete call.
Log_delete ==
    /\ pc = "del_log"
    /\ calls' = Log("log.delete")
    /\ Goto("fn_delete")
    /\ UNCHANGED <<cfgVars, timeVars, localVars, ctxVars, cacheVars, remoteVars, op, idx, status>>

Context_delete_sleep1 ==
    /\ pc = "del_sleep1"
    /\ calls' = Log("sleep")
    /\ Goto("del_role")
    /\ UNCHANGED <<cfgVars, timeVars, localVars, ctxVars, cacheVars, remoteVars, op, idx, status>>

\* if self.role: self.role.delete()
Context_delete_role ==
    /\ pc = "del_role"
    /\ CASE role = Undefined -> Raise("AttributeError")
         [] role = None -> Goto("del_sleep2")
         [] OTHER -> Goto("role_delete")
    /\ UNCHANGED <<cfgVars, timeVars, localVars, ctxVars, cacheVars, remoteVars, op, idx, calls, status>>

\* kappa.policy.Policy.arn: the identity resolves when the policy exists.
PolicyArn(p) == IF p \in remotePolicies THEN "arn:policy" ELSE None

\* The next policy at or after position i whose arn is truthy; 0 when none.
NextDetach(i) ==
    LET S == {j \in i..Len(policies.items) : PolicyArn(policies.items[j]) # None}
    IN IF S = {} THEN 0 ELSE CHOOSE j \in S : \A k \in S : j <= k

\* Where Role.delete returns to.
AfterRoleDelete == IF op = "delete" THEN "del_sleep2" ELSE "done"

\* policy_arns = [policy.arn for policy in self._context.policies]:
\* a TypeError, which except ClientError does not catch, when policies is None.
Role_delete ==
    /\ pc = "role_delete"
    /\ IF policies.none
       THEN idx' = 0 /\ Raise("TypeError")
       ELSE IF NextDetach(1) # 0
            THEN idx' = NextDetach(1) /\ Goto("role_detach")
            ELSE idx' = 0 /\ Goto("role_delete_role")
    /\ UNCHANGED <<cfgVars, timeVars, localVars, ctxVars, cacheVars, remoteVars, op, calls, status>>

Role_detach_role_policy ==
    /\ pc = "role_detach"
    /\ \E ok \in Outcomes(remoteRole # None /\ policies.items[idx] \in remoteAttached) :
        /\ calls' = Log("detach_role_policy")
        /\ remoteAttached' = IF ok THEN remoteAttached \ {policies.items[idx]}
                             ELSE remoteAttached
        /\ IF ~ok
           THEN idx' = 0 /\ Goto(AfterRoleDelete)
           ELSE IF NextDetach(idx + 1) # 0
                THEN idx' = NextDetach(idx + 1) /\ Goto("role_detach")
                ELSE idx' = 0 /\ Goto("role_delete_role")
    /\ UNCHANGED <<cfgVars, timeVars, localVars, ctxVars, cacheVars, fnRemote, remoteRole, remoteInline,
                   remotePolicies, op, status>>

Role_delete_role ==
    /\ pc = "role_delete_role"
    /\ \E ok \in Outcomes(remoteRole # None) :
        /\ calls' = Log("delete_role")
        /\ remoteRole' = IF ok THEN None ELSE remoteRole
        /\ remoteInline' = IF ok THEN FALSE ELSE remoteInline
        /\ remoteAttached' = IF ok THEN {} ELSE remoteAttached
    /\ Goto(AfterRoleDelete)
    /\ UNCHANGED <<cfgVars, timeVars, localVars, ctxVars, cacheVars, fnRemote, remotePolicies, op, idx, status>>

\* time.sleep(5); if self.policies: [policy.delete() ...]
Context_delete_sleep2 ==
    /\ pc = "del_sleep2"
    /\ calls' = Log("sleep")
    /\ IF Truthy(policies)
       THEN idx' = 1 /\ Goto("del_policies")
       ELSE idx' = 0 /\ Goto("done")
    /\ UNCHANGED <<cfgVars, timeVars, localVars, ctxVars, cacheVars, remoteVars, op, status>>

\* kappa.policy.Policy.delete: one delete call per policy.
Policy_delete ==
    /\ pc = "del_policies"
    /\ \E ok \in BOOLEAN :
        /\ ok => policies.items[idx] \in remotePolicies
        /\ calls' = Log("policy.delete")
        /\ remotePolicies' = IF ok THEN remotePolicies \ {policies.items[idx]}
                             ELSE remotePolicies
    /\ IF idx < Len(policies.items)
       THEN idx' = idx + 1 /\ Goto("del_policies")
       ELSE idx' = 0 /\ Goto("done")
    /\ UNCHANGED <<cfgVars, timeVars, localVars, ctxVars, cacheVars, fnRemote, roleRemote, op, status>>

(***************************************************************************)
(* Context.status                                                          *)
(***************************************************************************)
Context_status ==
    /\ Begin("status", "st_policies", 0)
    /\ UNCHANGED <<cfgVars, timeVars, payload, input, hist, ctxVars, cacheVars, remoteVars>>

\* The policies slot: a list when self.policies is truthy, None otherwise.
StatusPoliciesSlot(p) ==
    [set |-> TRUE, none |-> ~Truthy(p), items |-> <<>>]

Context_status_policies ==
    /\ pc = "st_policies"
    /\ status' = [status EXCEPT !.policies = StatusPoliciesSlot(policies)]
    /\ IF Truthy(policies)
       THEN idx' = 1 /\ Goto("st_policy")
       ELSE idx' = 0 /\ Goto("st_role")
    /\ UNCHANGED <<cfgVars, timeVars, localVars, ctxVars, cacheVars, remoteVars, op, calls>>

\* kappa.policy.Policy.status: one query per policy.
Policy_status ==
    /\ pc = "st_policy"
    /\ calls' = Log("policy.status")
    /\ status' = [status EXCEPT !.policies.items =
                    Append(@, PolicyArn(policies.items[idx]))]
    /\ IF idx < Len(policies.items)
       THEN idx' = idx + 1 /\ Goto("st_policy")
       ELSE idx' = 0 /\ Goto("st_role")
    /\ UNCHANGED <<cfgVars, timeVars, localVars, ctxVars, cacheVars, remoteVars, op>>

\* if self.role: status['role'] = self.role.status() else None
Context_status_role ==
    /\ pc = "st_role"
    /\ CASE role = Undefined -> Raise("AttributeError") /\ UNCHANGED status
         [] role = None ->
              /\ status' = [status EXCEPT !.role = None]
              /\ Goto("st_function")
         [] OTHER -> Goto("role_status") /\ UNCHANGED status
    /\ UNCHANGED <<cfgVars, timeVars, localVars, ctxVars, cacheVars, remoteVars, op, idx, calls>>

\* Faulty variant: the ClientError of a missing role is not caught.
Role_status_raises_not_found == remoteRole = None

\* except ClientError in Role.status: no failure of get_role escapes.
Role_status_raises == FALSE

\* Role.status: get_role, None on ClientError; Context.status stores it.
Role_status ==
    /\ pc = "role_status"
    /\ calls' = Log("status.get_role")
    /\ IF Role_status_raises
       THEN Raise("ClientError") /\ UNCHANGED <<ret, status>>
       ELSE /\ ret' = Found(remoteRole)
            /\ IF op = "status"
               THEN status' = [status EXCEPT !.role = remoteRole] /\ Goto("st_function")
               ELSE UNCHANGED status /\ Goto("done")
    /\ UNCHANGED <<cfgVars, timeVars, payload, input, hist, code, ctxVars, cacheVars, remoteVars, op, idx>>

\* Function.status, then status['event_sources'] = [].
Function_status ==
    /\ pc = "st_function"
    /\ calls' = Log("status.get_function")
    /\ ret' = Found(remoteFn)
    /\ IF op = "status"
       THEN /\ status' = [status EXCEPT !.function = remoteFn,
                                        !.event_sources = [set |-> TRUE, items |-> <<>>]]
            /\ IF Len(event_sources) > 0
               THEN idx' = 1 /\ Goto("st_event_sources")
               ELSE idx' = 0 /\ Goto("done")
       ELSE UNCHANGED <<status, idx>> /\ Goto("done")
    /\ UNCHANGED <<cfgVars, timeVars, payload, input, hist, code, ctxVars, cacheVars, remoteVars, op>>

\* kappa.event_source: status(function), one query per binding.
EventSource_status ==
    /\ pc = "st_event_sources"
    /\ \E found \in BOOLEAN :
        /\ calls' = Log("event_source.status")
        /\ status' = [status EXCEPT !.event_sources.items =
                        Append(@, IF found THEN event_sources[idx] ELSE None)]
    /\ IF idx < Len(event_sources)
       THEN idx' = idx + 1 /\ Goto("st_event_sources")
       ELSE idx' = 0 /\ Goto("done")
    /\ UNCHANGED <<cfgVars, timeVars, localVars, ctxVars, cacheVars, remoteVars, op>>

(***************************************************************************)
(* Function's properties: runtime, timeout, memory_size                    *)
(***************************************************************************)
\* A property read or a local call: it issues no remote call and either
\* returns v or raises e.
Return(o, v) ==
    /\ Idle
    /\ op' = o
    /\ pc' = "done"
    /\ idx' = 0
    /\ calls' = <<>>
    /\ result' = "returned"
    /\ status' = NoStatus
    /\ ret' = v
    /\ code' = "unset"

Throw(o, e) ==
    /\ Idle
    /\ op' = o
    /\ pc' = "done"
    /\ idx' = 0
    /\ calls' = <<>>
    /\ result' = e
    /\ status' = NoStatus
    /\ ret' = NoValue
    /\ code' = "unset"

\* File names of the source directory, as character sequences.
FileNames == {<<"a", ".", "p", "y">>, <<"b", ".", "j", "s">>,
              <<"c", ".", "p", "y", "c">>, <<"d", ".", "j", "s", "o", "n">>,
              <<"p", "y">>, <<".", "j", "s", ".", "t", "x", "t">>}

\* str.endswith
EndsWith(name, suffix) ==
    /\ Len(name) >= Len(suffix)
    /\ SubSeq(name, Len(name) - Len(suffix) + 1, Len(name)) = suffix

\* Faulty variant: a file is taken for javascript when ".js" occurs anywhere.
HasJavascriptAnywhere(files) ==
    \E f \in files : \E i \in 1..Len(f) : i + 2 <= Len(f) /\ SubSeq(f, i, i + 2) = <<".", "j", "s">>

HasPython(files) == \E f \in files : EndsWith(f, <<".", "p", "y">>)
HasJavascript(files) == \E f \in files : EndsWith(f, <<".", "j", "s">>)

\* Context.get_default_runtime: None unless exactly one kind is present.
get_default_runtime(files) ==
    IF HasPython(files) /\ ~HasJavascript(files) THEN "python2.7"
    ELSE IF HasJavascript(files) /\ ~HasPython(files) THEN "nodejs"
    ELSE None

\* Function.runtime: self._config['runtime'] raises KeyError when the key
\* is missing and nothing was inferred.
Function_runtime ==
    /\ pc # "new"
    /\ IF lambda_config.runtime = "absent"
       THEN IF get_default_runtime(path_files) # None
            THEN Return("fn.runtime", Str(get_default_runtime(path_files)))
            ELSE Throw("fn.runtime", "KeyError")
       ELSE Return("fn.runtime", Str(lambda_config.runtime))
    /\ UNCHANGED <<cfgVars, timeVars, payload, input, hist, ctxVars, cacheVars, remoteVars>>

IsDigit(c) == \E i \in 1..Len(Digits) : Digits[i] = c
DigitVal(c) == (CHOOSE i \in 1..Len(Digits) : Digits[i] = c) - 1

RECURSIVE IntOf(_)
\* int() of a text of decimal digits
IntOf(t) ==
    IF t = <<>> THEN 0
    ELSE 10 * IntOf(SubSeq(t, 1, Len(t) - 1)) + DigitVal(t[Len(t)])

\* os.getenv(name, default)
getenv(name, default) == IF environ[name].has THEN environ[name].v ELSE default

\* Class attributes of Function, evaluated when the module is imported.
\* Both read KAPPA_DEFAULT_TIMEOUT.
DEFAULT_MEMORY == IntOf(getenv("KAPPA_DEFAULT_TIMEOUT", <<"1", "2", "8">>))
DEFAULT_TIMEOUT == IntOf(getenv("KAPPA_DEFAULT_TIMEOUT", <<"3">>))

\* Function.timeout: self._config.get('timeout', self.DEFAULT_TIMEOUT)
Function_timeout ==
    /\ Return("fn.timeout", Num(IF lambda_config.timeout.has
                                THEN lambda_config.timeout.v ELSE DEFAULT_TIMEOUT))
    /\ UNCHANGED <<cfgVars, timeVars, payload, input, hist, ctxVars, cacheVars, remoteVars>>

\* Function.memory_size: self._config.get('memory_size', self.DEFAULT_MEMORY)
Function_memory_size ==
    /\ Return("fn.memory_size", Num(IF lambda_config.memory_size.has
                                    THEN lambda_config.memory_size.v ELSE DEFAULT_MEMORY))
    /\ UNCHANGED <<cfgVars, timeVars, payload, input, hist, ctxVars, cacheVars, remoteVars>>

(***************************************************************************)
(* invoke, invoke_async, invoke_local                                      *)
(***************************************************************************)
\* Payload texts: compact JSON documents and texts that are not JSON.
Payloads == {<<>>,
             <<"{", "\"", "x", "\"", ":", "1", "}">>,
             <<"n", "u", "l", "l">>,
             <<"1", "2">>,
             <<"\"", "h", "i", "\"">>,
             <<"a", "b">>,
             <<"{", "\"", "x", "\"", ":">>}

\* The input of Context.invoke*: None (Absent) or a payload text.
Inputs == {Absent} \cup {Some(t) : t \in Payloads}

\* Faulty variant: an empty explicit payload counts as not given.
get_test_data_falsy(test_data) ==
    IF ~test_data.has \/ test_data.v = <<>>
    THEN IF ~lambda_config.test_data.has
         THEN <<"n", "u", "l", "l">>
         ELSE lambda_config.test_data.v
    ELSE test_data.v

\* Function._get_test_data: `if test_data is None`, then the configured
\* file's contents, or "null" without one.
get_test_data(test_data) ==
    IF ~test_data.has
    THEN IF ~lambda_config.test_data.has
         THEN <<"n", "u", "l", "l">>
         ELSE lambda_config.test_data.v
    ELSE test_data.v

\* Values of json.loads: null, an integer, a string, an object of at most
\* one member whose value is one of the former; Raw is the text itself.
JNull == [NoValue EXCEPT !.t = "null"]
JText(x) == [NoValue EXCEPT !.t = "text", !.x = x]
JObject(k, v) == [v EXCEPT !.t = "object", !.k = k, !.vt = v.t]
JEmpty == [NoValue EXCEPT !.t = "object"]
Raw(x) == [NoValue EXCEPT !.t = "raw", !.x = x]
JFail == [NoValue EXCEPT !.t = "ValueError"]

IsJsonInt(t) ==
    /\ Len(t) > 0
    /\ \A i \in 1..Len(t) : IsDigit(t[i])
    /\ Len(t) > 1 => t[1] # "0"

IsJsonString(t) ==
    /\ Len(t) >= 2
    /\ t[1] = "\"" /\ t[Len(t)] = "\""
    /\ \A i \in 2..(Len(t) - 1) : t[i] \notin {"\"", "\\"}

\* A scalar document.
JsonScalar(t) ==
    IF t = <<"n", "u", "l", "l">> THEN JNull
    ELSE IF IsJsonInt(t) THEN Num(IntOf(t))
    ELSE IF IsJsonString(t) THEN JText(SubSeq(t, 2, Len(t) - 1))
    ELSE JFail

\* The member "key":value between the braces.
JsonMember(t) ==
    LET closing == {i \in 2..Len(t) : t[i] = "\"" /\ \A j \in 2..(i - 1) : t[j] # "\""}
    IN IF Len(t) < 4 \/ t[1] # "\"" \/ closing = {}
       THEN JFail
       ELSE LET q == CHOOSE i \in closing : TRUE
                key == SubSeq(t, 1, q)
                val == JsonScalar(SubSeq(t, q + 2, Len(t)))
            IN IF q + 1 > Len(t) \/ t[q + 1] # ":" \/ ~IsJsonString(key) \/ val = JFail
               THEN JFail
               ELSE JObject(SubSeq(key, 2, Len(key) - 1), val)

\* json.loads over compact documents; JFail stands for its ValueError.
JsonLoads(t) ==
    IF JsonScalar(t) # JFail THEN JsonScalar(t)
    ELSE IF Len(t) >= 2 /\ t[1] = "{" /\ t[Len(t)] = "}"
         THEN IF Len(t) = 2 THEN JEmpty ELSE JsonMember(SubSeq(t, 2, Len(t) - 1))
         ELSE JFail

\* Faulty variant: a text that does not parse becomes null.
EventOfOrNull(t) == IF JsonLoads(t) = JFail THEN JNull ELSE JsonLoads(t)

\* try: event = json.loads(test_data)  except: event = test_data
EventOf(t) == IF JsonLoads(t) = JFail THEN Raw(t) ELSE JsonLoads(t)

\* The handler function the configuration names, called in-process.
Handler(event) == IF lambda_config.handler = "echo" THEN event ELSE Str("const")

\* _FakeLambdaContext.__init__ as invoke_local calls it: timeout is
\* self.timeout and start, not given, is time.time().
FakeLambdaContext(timeout) == [made |-> TRUE, timeout |-> timeout, start |-> now]

\* Context.invoke_local -> Function.invoke_local: no remote call at all.
Context_invoke_local(i) ==
    /\ input' = i
    /\ payload' = Some(get_test_data(i))
    /\ context' = FakeLambdaContext(IF lambda_config.timeout.has
                                    THEN lambda_config.timeout.v ELSE DEFAULT_TIMEOUT)
    /\ Return("invoke_local", Handler(EventOf(get_test_data(i))))
    /\ UNCHANGED <<cfgVars, now, hist, ctxVars, cacheVars, remoteVars>>

\* _FakeLambdaContext.get_remaining_time_in_millis:
\*   time_used = self._get_time() - self._start
\*   time_left = self._timeout * 1000 - time_used
\*   return int(round(time_left * 1000))
get_remaining_time_in_millis(c, t) ==
    LET time_used == t - c.start
        time_left == c.timeout * 1000 - time_used
    IN time_left * 1000    \* int(round(x)) of a whole number is that number

\* The handler's context asked for the remaining time.
FakeLambdaContext_get_remaining_time_in_millis ==
    /\ context.made
    /\ Return("context.get_remaining_time_in_millis",
              Num(get_remaining_time_in_millis(context, now)))
    /\ UNCHANGED <<cfgVars, timeVars, payload, input, hist, ctxVars, cacheVars, remoteVars>>

\* A second passes on the clock time.time() reads.
Clock_tick ==
    /\ now < MaxClock
    /\ now' = now + 1
    /\ UNCHANGED <<cfgVars, context, localVars, ctxVars, cacheVars, remoteVars,
                   op, pc, idx, calls, result, status>>

\* The lambda invoke call with the InvocationType each operation passes.
InvokeCall(o) ==
    CASE o = "invoke" -> "invoke:RequestResponse"
      [] o = "invoke.dry_run" -> "invoke:DryRun"
      [] o = "invoke_async" -> "invoke:Event"

\* Context.invoke / invoke(dry_run=True) / invoke_async up to the remote call.
Context_invoke(o, i) ==
    /\ o \in {"invoke", "invoke.dry_run", "invoke_async"}
    /\ Begin(o, "fn_invoke", 0)
    /\ input' = i
    /\ payload' = Some(get_test_data(i))
    /\ UNCHANGED <<cfgVars, timeVars, hist, ctxVars, cacheVars, remoteVars>>

\* Function._invoke: the one lambda invoke call; its ClientError propagates.
Function_invoke ==
    /\ pc = "fn_invoke"
    /\ \E ok \in BOOLEAN :
        /\ ok => remoteFn # None
        /\ calls' = Log(InvokeCall(op))
        /\ IF ok
           THEN Goto("done") /\ ret' = Str("response")
           ELSE Raise("ClientError") /\ ret' = NoValue
    /\ UNCHANGED <<cfgVars, timeVars, payload, input, hist, code, ctxVars, cacheVars, remoteVars, op, idx, status>>

(***************************************************************************)
(* The provider changes behind the tool's back, between operations.        *)
(***************************************************************************)
Env_function ==
    /\ Idle
    /\ \E a \in {None, "arn:fn", "arn:fn2"} \ {remoteFn} :
        /\ remoteFn' = a
        /\ remoteFnConf' = IF a = None THEN None ELSE "created"
    /\ UNCHANGED <<cfgVars, timeVars, localVars, ctxVars, cacheVars, roleRemote, remotePolicies,
                   op, pc, idx, calls, result, status>>

Env_role ==
    /\ Idle
    /\ \E a \in {None, "arn:role", "arn:role2"} \ {remoteRole} :
        /\ remoteRole' = a
        /\ remoteInline' = FALSE
        /\ remoteAttached' = {}
    /\ UNCHANGED <<cfgVars, timeVars, localVars, ctxVars, cacheVars, fnRemote, remotePolicies,
                   op, pc, idx, calls, result, status>>

\* Context.__init__ alone, over every configuration, on a fresh account.
InitConstruct ==
    /\ Init
    /\ PlainInputs
    /\ PlainProvider
    /\ remoteFn = None /\ remoteRole = None /\ remotePolicies = {}

NextInit == Context_init

SpecInit == InitConstruct /\ [][NextInit]_vars

\* create() and deploy() on a fresh account, repeated.
InitCreate ==
    /\ Init
    /\ PlainInputs
    /\ PlainProvider
    /\ config.event_sources = <<>>
    /\ remoteFn = None /\ remoteRole = None /\ remotePolicies = {}

NextCreate ==
    \/ Context_init
    \/ \E o \in {"create", "deploy"} : Context_create(o)
    \/ Policy_create
    \/ Context_create_role
    \/ Role_exists
    \/ Role_create_role
    \/ Role_get_user
    \/ Role_put_role_policy
    \/ Role_attach_role_policy
    \/ Context_sleep
    \/ Function_deploy
    \/ Function_create
    \/ Function_create_put_object
    \/ Function_create_function
    \/ Function_add_permissions
    \/ Function_update
    \/ Function_update_exec_role
    \/ Function_update_configuration

SpecCreate == InitCreate /\ [][NextCreate]_vars

\* The Function and Role objects, while the provider changes under them.
InitFunction ==
    /\ Init
    /\ PlainInputs
    /\ PlainProvider
    /\ config.event_sources = <<>>
    /\ config.policy = "absent"

NextFunction ==
    \/ Context_init
    \/ \E o \in {"fn.deploy", "fn.create", "fn.delete", "fn.arn", "fn.exists", "fn.status"} : Function_call(o)
    \/ \E o \in {"role.arn", "role.status"} : Role_call(o)
    \/ Context_update_code
    \/ Function_arn_access
    \/ Role_arn_access
    \/ Function_status
    \/ Role_status
    \/ Function_deploy
    \/ Function_create
    \/ Function_create_put_object
    \/ Function_create_function
    \/ Function_add_permissions
    \/ Function_update
    \/ Function_update_exec_role
    \/ Function_update_configuration
    \/ Function_delete
    \/ Env_function
    \/ Env_role

SpecFunction == InitFunction /\ [][NextFunction]_vars

\* delete() against every provider state.
InitDelete ==
    /\ Init
    /\ PlainInputs
    /\ PlainProvider
    /\ config.s3 = "absent"
    /\ config.permissions = 0

NextDelete ==
    \/ Context_init
    \/ Context_delete
    \/ EventSource_remove
    \/ Log_delete
    \/ Function_delete
    \/ Context_delete_sleep1
    \/ Context_delete_role
    \/ Role_delete
    \/ Role_detach_role_policy
    \/ Role_delete_role
    \/ Context_delete_sleep2
    \/ Policy_delete

SpecDelete == InitDelete /\ [][NextDelete]_vars

\* status() against every provider state.
NextStatus ==
    \/ Context_init
    \/ Context_status
    \/ Context_status_policies
    \/ Policy_status
    \/ Context_status_role
    \/ Role_status
    \/ Function_status
    \/ EventSource_status

SpecStatus == InitDelete /\ [][NextStatus]_vars

(***************************************************************************)
(* Properties                                                              *)
(***************************************************************************)
Pos(S) == {i \in 1..Len(calls) : calls[i] \in S}
Has(c) == Pos({c}) # {}
Count(c) == Cardinality(Pos({c}))
\* Every call of A is issued before every call of B.
AllBefore(A, B) == \A i \in Pos(A), j \in Pos(B) : i < j

PolicyProvisionCalls == {"policy.create", "policy.deploy"}
RoleCreateCalls == {"list_roles", "create_role", "get_user", "put_role_policy",
                    "attach_role_policy"}
FunctionSideCalls == {"put_object", "create_function", "update_function_code",
                      "update_function_configuration", "add_permission",
                      "get_function"}
Finished == pc = "done"

\* C1: in every run of create() and deploy() the policy calls come first,
\* then the role creation step, then exactly one settle wait (also when no
\* role or policy is managed), and function-side calls only after the wait.
C1_ProvisionOrder ==
    op \in {"create", "deploy"} =>
        /\ AllBefore(PolicyProvisionCalls, RoleCreateCalls)
        /\ AllBefore(PolicyProvisionCalls \cup RoleCreateCalls, {"sleep"})
        /\ AllBefore({"sleep"}, FunctionSideCalls)
        /\ Count("sleep") <= 1
        /\ Finished => Count("sleep") = 1

RoleDeleteCalls == {"detach_role_policy", "delete_role"}

\* C2: in every run of delete(), whatever steps fail, every event-source
\* removal and the log channel delete precede the function delete, the
\* function delete precedes the role delete, and the role step precedes every
\* policy delete.
C2_DeleteOrder ==
    op = "delete" =>
        /\ AllBefore({"event_source.remove"}, {"log.delete", "delete_function"})
        /\ AllBefore({"log.delete"}, {"delete_function"})
        /\ AllBefore({"delete_function"}, RoleDeleteCalls)
        /\ AllBefore(RoleDeleteCalls, {"policy.delete"})
        /\ AllBefore({"delete_function"}, {"policy.delete"})
        /\ Has("delete_function") =>
              /\ Count("event_source.remove") = Len(event_sources)
              /\ Count("log.delete") = 1
        /\ Pos(RoleDeleteCalls \cup {"policy.delete"}) # {} => Has("delete_function")
        /\ (role = "Role" /\ Has("policy.delete")) => Pos(RoleDeleteCalls) # {}

\* A delete() that removed two bindings, the function, the role and a policy.
C2_Witness ==
    /\ op = "delete" /\ Finished /\ result = "returned"
    /\ Count("event_source.remove") = 2
    /\ Has("detach_role_policy") /\ Has("delete_role") /\ Has("policy.delete")
    /\ remoteFn = None /\ remoteRole = None

\* C3: delete() is best-effort: it never propagates a failure and attempts the
\* delete of the function, of the role when one is managed, and of every policy.
C3_DeleteBestEffort ==
    (op = "delete" /\ Finished) =>
        /\ result = "returned"
        /\ Has("delete_function")
        /\ (config.iam /\ config.role \in {"true", "object"}
              /\ ~Has("detach_role_policy")) => Has("delete_role")
        /\ Count("policy.delete") = config.n

CreatePath == {"fn_create", "fn_put_object", "fn_create_function", "fn_add_permission"}
UpdatePath == {"fn_update", "fn_update_role", "fn_update_configuration"}

C5_NoIamCreate ==
    (op = "create" /\ Finished /\ ~config.iam /\ config.s3 = "absent") =>
        /\ result = "returned"
        /\ Pos(PolicyProvisionCalls \cup RoleCreateCalls) = {}
        /\ Count("sleep") = 1
        /\ Count("create_function") = 1

PoliciesManaged == config.iam /\ config.policy # "absent"
RoleManaged == config.iam /\ config.role \in {"true", "object"}

\* C6: status() reports the policies (role) slot as the absent marker exactly
\* when the configuration does not manage policies (a role); event_sources is
\* always a list and function is always present.
C6_StatusAbsence ==
    (op = "status" /\ Finished /\ result = "returned") =>
        /\ status.policies.set /\ (status.policies.none <=> ~PoliciesManaged)
        /\ status.role = None <=> ~RoleManaged
        /\ status.function # "unset"
        /\ status.event_sources.set

\* C7: update_code() issues the code-update call and no configuration update,
\* no role-changing call and no policy call.
C7_UpdateCodeOnly ==
    op = "update_code" =>
        /\ Finished => Has("update_function_code")
        /\ ~Has("update_function_configuration")
        /\ Pos(PolicyProvisionCalls \cup RoleCreateCalls) = {}

\* The step appends a call c to the log.
Issues(c) == calls' # calls /\ Len(calls') > 0 /\ calls'[Len(calls')] = c

\* C8: once the identity of a Function (of a Role) has resolved, every later
\* step leaves the cached value as it is and issues no identity lookup,
\* whatever happens to the remote resource.
C8_ArnCached ==
    [][/\ function_arn # None =>
            (function_arn' = function_arn /\ ~Issues("get_function"))
       /\ role_arn # None =>
            (role_arn' = role_arn /\ ~Issues("get_role"))]_vars

\* An access that returned the cached identity of a function since deleted.
C8_Witness ==
    /\ op = "fn.arn" /\ Finished /\ calls = <<>>
    /\ function_arn = "arn:fn" /\ remoteFn # "arn:fn"

\* The variant the specification assigns to a producer segment.
VariantOf(svc) ==
    IF svc = "kinesis" THEN "KinesisEventSource"
    ELSE IF svc = "s3" THEN "S3EventSource"
    ELSE IF svc = "sns" THEN "SNSEventSource"
    ELSE "DynamoDBStreamEventSource"

ProducerSegment(arn) == arn[3]

\* C9: construction succeeds exactly when every configured event-source ARN
\* has its producer segment in {kinesis, s3, sns, dynamodb}; otherwise it
\* raises ValueError; no remote call is issued; on success there is one
\* binding per entry, in order, of the variant the segment selects.
C9_Construction ==
    op = "init" =>
        LET srcs == config.event_sources
            known == \A i \in 1..Len(srcs) :
                        ProducerSegment(srcs[i]) \in {"kinesis", "s3", "sns", "dynamodb"}
        IN /\ calls = <<>>
           /\ result = "returned" <=> known
           /\ result # "returned" => (result = "ValueError" /\ pc = "failed")
           /\ result = "returned" =>
                /\ Len(event_sources) = Len(srcs)
                /\ \A i \in 1..Len(srcs) :
                        event_sources[i] = VariantOf(ProducerSegment(srcs[i]))

\* A Context built with a topic-subscription and a change-stream binding.
C9_Witness ==
    /\ op = "init" /\ result = "returned"
    /\ event_sources = <<"SNSEventSource", "DynamoDBStreamEventSource">>

\* C10: with a managed role, create() and deploy() return normally whatever
\* role-step call fails, having waited once and then attempted the function
\* step; no step undoes what the provider already holds.
C10_RoleFailureSwallowed ==
    /\ []((op \in {"create", "deploy"} /\ role = "Role" /\ Finished) =>
            /\ result = "returned"
            /\ Count("sleep") = 1
            /\ \E j \in Pos({"put_object", "create_function", "update_function_code"}) :
                    \A i \in Pos({"sleep"}) : i < j)
    /\ [][op' \in {"create", "deploy"} =>
            /\ remotePolicies \subseteq remotePolicies'
            /\ remoteAttached \subseteq remoteAttached'
            /\ remoteRole # None => remoteRole' = remoteRole
            /\ remoteInline => remoteInline'
            /\ remoteFn # None => remoteFn' = remoteFn]_vars

\* A create() whose create_role failed (no get_user follows it) and which
\* still waited and registered the function.
C10_Witness ==
    /\ op = "create" /\ Finished /\ result = "returned"
    /\ \E i \in Pos({"create_role"}) : calls[i + 1] # "get_user"
    /\ Has("sleep") /\ Has("create_function")

(***************************************************************************)
(* Function.runtime over every source directory                            *)
(***************************************************************************)
InitRuntime ==
    /\ Init
    /\ PlainProvider
    /\ config = [iam |-> FALSE, policy |-> "absent", n |-> 0, role |-> "absent",
                 s3 |-> "absent", permissions |-> 0, event_sources |-> <<>>]
    /\ remoteFn = None /\ remoteRole = None
    /\ lambda_config \in {[PlainLambda EXCEPT !.runtime = r] :
                             r \in {"absent", "python2.7", "nodejs", "java8", ""}}
    /\ path_files \in {F \in SUBSET FileNames : Cardinality(F) <= MaxFiles}
    /\ environ = NoEnviron

NextRuntime ==
    \/ Context_init
    \/ Function_runtime

SpecRuntime == InitRuntime /\ [][NextRuntime]_vars

\* C11: an explicit runtime is returned unchanged; without one, .py files
\* and no .js files give the python runtime, .js files and no .py files the
\* nodejs runtime, and both or neither make the read raise (KeyError), with
\* no value returned.
C11_RuntimeResolution ==
    (op = "fn.runtime" /\ pc = "done") =>
        LET py == \E f \in path_files : EndsWith(f, <<".", "p", "y">>)
            js == \E f \in path_files : EndsWith(f, <<".", "j", "s">>)
        IN /\ calls = <<>>
           /\ IF lambda_config.runtime # "absent"
              THEN result = "returned" /\ ret = Str(lambda_config.runtime)
              ELSE /\ (py /\ ~js) => (result = "returned" /\ ret = Str("python2.7"))
                   /\ (js /\ ~py) => (result = "returned" /\ ret = Str("nodejs"))
                   /\ (py = js) => (result = "KeyError" /\ ret = NoValue)

\* Both kinds present: nothing is inferred and the read raises.
C11_Witness ==
    /\ op = "fn.runtime" /\ pc = "done"
    /\ lambda_config.runtime = "absent"
    /\ {<<"a", ".", "p", "y">>, <<"b", ".", "j", "s">>} \subseteq path_files
    /\ result = "KeyError"

(***************************************************************************)
(* The invocations, over every payload and test-data file                  *)
(***************************************************************************)
InitInvoke ==
    /\ Init
    /\ PlainProvider
    /\ config = [iam |-> FALSE, policy |-> "absent", n |-> 0, role |-> "absent",
                 s3 |-> "absent", permissions |-> 0, event_sources |-> <<>>]
    /\ remoteRole = None
    /\ lambda_config \in {[PlainLambda EXCEPT !.test_data = d, !.handler = h] :
                             d \in {Absent, Some(<<>>), Some(<<"1", "2">>),
                                    Some(<<"{", "\"", "x", "\"", ":", "1", "}">>)},
                             h \in {"echo", "const"}}
    /\ path_files = {}
    /\ environ = NoEnviron

NextInvoke ==
    \/ Context_init
    \/ \E i \in Inputs : Context_invoke_local(i)
    \/ \E o \in {"invoke", "invoke.dry_run", "invoke_async"}, i \in Inputs : Context_invoke(o, i)
    \/ Function_invoke

SpecInvoke == InitInvoke /\ [][NextInvoke]_vars

\* What each payload text is as structured data; the texts that are not
\* JSON documents stay as they are.
ExpectedEvent(t) ==
    CASE t = <<"{", "\"", "x", "\"", ":", "1", "}">> ->
            [t |-> "object", s |-> "", n |-> 1, x |-> <<>>, k |-> <<"x">>, vt |-> "int"]
      [] t = <<"n", "u", "l", "l">> ->
            [t |-> "null", s |-> "", n |-> 0, x |-> <<>>, k |-> <<>>, vt |-> ""]
      [] t = <<"1", "2">> ->
            [t |-> "int", s |-> "", n |-> 12, x |-> <<>>, k |-> <<>>, vt |-> ""]
      [] t = <<"\"", "h", "i", "\"">> ->
            [t |-> "text", s |-> "", n |-> 0, x |-> <<"h", "i">>, k |-> <<>>, vt |-> ""]
      [] OTHER ->
            [t |-> "raw", s |-> "", n |-> 0, x |-> t, k |-> <<>>, vt |-> ""]

\* C12: invoke_local issues no remote call and changes no remote state; it
\* returns what the handler returns for the payload parsed as structured
\* data, or for the raw text when it does not parse, so the echo handler
\* returns the parsed payload ({"x":1} gives the object x: 1).
C12_InvokeLocal ==
    /\ []((op = "invoke_local" /\ pc = "done") =>
            /\ calls = <<>>
            /\ result = "returned"
            /\ payload.has
            /\ lambda_config.handler = "echo" => ret = ExpectedEvent(payload.v)
            /\ lambda_config.handler = "const" => ret = Str("const"))
    /\ [][op' = "invoke_local" => UNCHANGED remoteVars]_vars

\* The echo handler was given {"x":1} and returned the object.
C12_Witness ==
    /\ op = "invoke_local" /\ pc = "done"
    /\ lambda_config.handler = "echo"
    /\ input = Some(<<"{", "\"", "x", "\"", ":", "1", "}">>)
    /\ ret.t = "object" /\ ret.k = <<"x">> /\ ret.n = 1

\* C15: invoke, invoke with dry_run, invoke_async and invoke_local resolve
\* the payload alike: a given payload, the empty text included, is used as
\* is; otherwise the test-data file's contents; otherwise "null".  The three
\* remote operations issue exactly one invoke call each, of type
\* RequestResponse, DryRun and Event respectively.
C15_PayloadResolution ==
    (op \in {"invoke", "invoke.dry_run", "invoke_async", "invoke_local"}) =>
        /\ input.has => payload = Some(input.v)
        /\ (~input.has /\ lambda_config.test_data.has) => payload = lambda_config.test_data
        /\ (~input.has /\ ~lambda_config.test_data.has) => payload = Some(<<"n", "u", "l", "l">>)
        /\ (op = "invoke_local" \/ pc = "fn_invoke") => calls = <<>>
        /\ (op = "invoke" /\ pc = "done") => calls = <<"invoke:RequestResponse">>
        /\ (op = "invoke.dry_run" /\ pc = "done") => calls = <<"invoke:DryRun">>
        /\ (op = "invoke_async" /\ pc = "done") => calls = <<"invoke:Event">>

\* An empty payload was given although a test-data file is configured, and
\* the empty payload was sent.
C15_Witness ==
    /\ op = "invoke" /\ pc = "done" /\ result = "returned"
    /\ input = Some(<<>>)
    /\ lambda_config.test_data.has /\ lambda_config.test_data.v # <<>>
    /\ payload = Some(<<>>)
    /\ calls = <<"invoke:RequestResponse">>

\* C13: Function.status() and Role.status() issue one query each and return
\* None when the resource does not exist; reading the arn of a missing
\* Function or Role returns None; none of them raises, and the provider's
\* state is left as it was.
C13_ReadsMapNotFound ==
    [][(pc' # pc /\ op' \in {"fn.status", "role.status", "fn.arn", "role.arn"}) =>
          /\ UNCHANGED remoteVars
          /\ pc' = "done" =>
                /\ result' = "returned"
                /\ op' = "fn.status" => /\ calls' = <<"status.get_function">>
                                        /\ remoteFn = None => ret'.t = "none"
                                        /\ remoteFn # None => ret' = Str(remoteFn)
                /\ op' = "role.status" => /\ calls' = <<"status.get_role">>
                                          /\ remoteRole = None => ret'.t = "none"
                                          /\ remoteRole # None => ret' = Str(remoteRole)
                /\ op' = "fn.arn" => /\ Len(calls') <= 1
                                     /\ (calls' # <<>> /\ remoteFn = None) => ret'.t = "none"
                /\ op' = "role.arn" => /\ Len(calls') <= 1
                                       /\ (calls' # <<>> /\ remoteRole = None) => ret'.t = "none"]_vars

\* The role's status was asked for while the role did not exist.
C13_Witness ==
    /\ op = "role.status" /\ pc = "done"
    /\ remoteRole = None
    /\ calls = <<"status.get_role">>
    /\ ret.t = "none" /\ result = "returned"

(***************************************************************************)
(* Function.timeout and Function.memory_size over every environment        *)
(***************************************************************************)
InitDefaults ==
    /\ Init
    /\ PlainProvider
    /\ config = [iam |-> FALSE, policy |-> "absent", n |-> 0, role |-> "absent",
                 s3 |-> "absent", permissions |-> 0, event_sources |-> <<>>]
    /\ remoteFn = None /\ remoteRole = None
    /\ lambda_config \in {[PlainLambda EXCEPT !.timeout = t, !.memory_size = m] :
                             t \in {NoNum, Some(10), Some(3)},
                             m \in {NoNum, Some(512), Some(128)}}
    /\ path_files = {}
    /\ environ \in [{"KAPPA_DEFAULT_TIMEOUT", "KAPPA_DEFAULT_MEMORY"} ->
                      {Absent, Some(<<"5">>), Some(<<"2", "5", "6">>), Some(<<"3">>)}]

NextDefaults ==
    \/ Context_init
    \/ Function_timeout
    \/ Function_memory_size

SpecDefaults == InitDefaults /\ [][NextDefaults]_vars

\* C14: the default memory size and the default timeout are overridden from
\* the environment independently: with KAPPA_DEFAULT_TIMEOUT set, the default
\* memory size is still 128 unless a setting of its own changes it, and the
\* default timeout is 3 unless KAPPA_DEFAULT_TIMEOUT is set; a value in the
\* function config wins over either default.
C14_IndependentDefaults ==
    (pc = "done" /\ op \in {"fn.timeout", "fn.memory_size"}) =>
        /\ (op = "fn.timeout" /\ lambda_config.timeout.has)
                => ret = Num(lambda_config.timeout.v)
        /\ (op = "fn.memory_size" /\ lambda_config.memory_size.has)
                => ret = Num(lambda_config.memory_size.v)
        /\ (op = "fn.timeout" /\ ~lambda_config.timeout.has
                /\ ~environ["KAPPA_DEFAULT_TIMEOUT"].has)
                => ret = Num(3)
        /\ (op = "fn.memory_size" /\ ~lambda_config.memory_size.has
                /\ ~environ["KAPPA_DEFAULT_MEMORY"].has)
                => ret = Num(128)

\* C16: over the lifetime of one Function object, exists(), deploy() and arn
\* accesses issue at most one identity lookup in total, whether the first
\* lookup found the function or not.
C16_SingleLookup == fn_lookups <= 1

\* C16, amended: at most one identity lookup finds the function, and none is
\* issued after it; a lookup that did not find the function is not
\* remembered, so each later access looks up again.
C16_SingleSuccessfulLookup ==
    /\ [](fn_hits <= 1 /\ (fn_hits = 1 <=> function_arn # None))
    /\ [][/\ function_arn # None => fn_lookups' = fn_lookups
          /\ (function_arn = None /\ pc \in {"fn_arn", "fn_deploy"} /\ pc' # pc)
                => (Issues("get_function") /\ fn_lookups' = Counted(fn_lookups, TRUE))]_vars

\* A lookup missed, a later one found the function, and the access after
\* that issued no lookup.
C16_Witness ==
    /\ op \in {"fn.exists", "fn.arn"} /\ pc = "done" /\ calls = <<>>
    /\ fn_lookups = 2 /\ fn_hits = 1

(***************************************************************************)
(* Role.create and Role.delete, repeatedly, against each kind of provider  *)
(***************************************************************************)
InitRoleOps ==
    /\ Init
    /\ PlainInputs
    /\ config.role \in {"true", "object"}
    /\ config.s3 = "absent" /\ config.permissions = 0 /\ config.event_sources = <<>>
    /\ remoteFn = None
    /\ provider \in {"flaky", "listing", "healthy"}
    /\ roleListing \in {[pages |-> n, at |-> k] : n \in 1..MaxPages, k \in 1..MaxPages}
    /\ roleListing.at <= roleListing.pages

NextRoleOps ==
    \/ Context_init
    \/ \E o \in {"role.create", "role.delete"} : Role_call(o)
    \/ Role_exists
    \/ Role_create_role
    \/ Role_get_user
    \/ Role_put_role_policy
    \/ Role_attach_role_policy
    \/ Role_delete
    \/ Role_detach_role_policy
    \/ Role_delete_role

SpecRoleOps == InitRoleOps /\ [][NextRoleOps]_vars

\* The role's remote state, and whether the Role.create call created it.
RoleState == [role |-> remoteRole, inline |-> remoteInline, attached |-> remoteAttached]
RoleCreated == hist.start.role = None /\ remoteRole # None

\* What every Role.create call does when its listing succeeds: the scan
\* fetches every page before anything else, create_role is issued at most
\* once and only when the role was not listed, and a successful create_role
\* is followed by get_user and then put_role_policy.
RoleCreateScan ==
    (op = "role.create" /\ provider # "flaky") =>
        /\ pc # "role_exists" => Count("list_roles") = roleListing.pages
        /\ pc = "role_exists" => (calls = [i \in 1..idx |-> "list_roles"]
                                  /\ idx < roleListing.pages)
        /\ Has("create_role") => hist.start.role = None
        /\ Count("create_role") <= 1
        /\ AllBefore({"list_roles"}, {"create_role"})
        /\ AllBefore({"create_role"}, {"get_user", "put_role_policy"})
        /\ (RoleCreated /\ pc \notin {"role_create_role", "role_get_user"})
                => Has("get_user")
        /\ Has("put_role_policy") => (RoleCreated /\ AllBefore({"get_user"}, {"put_role_policy"}))
        /\ (RoleCreated /\ provider = "healthy" /\ pc = "done") => remoteInline

C18_AttachEvery ==
    (op = "role.create" /\ pc = "done") =>
        /\ result = "returned"
        /\ Count("attach_role_policy") = Len(policies.items)

\* The configured policies whose identity resolves.
Resolving == {j \in 1..Len(policies.items) : PolicyArn(policies.items[j]) # None}

\* C19: Role.delete() on a managed role, with any number of configured
\* policies and with no iam.policy at all, issues a detach call for every
\* configured policy whose identity resolves, then delete_role, and returns
\* without raising, also when the role does not exist remotely.
C19_RoleDelete ==
    (op = "role.delete" /\ pc = "done") =>
        /\ result = "returned"
        /\ Count("delete_role") = 1
        /\ Count("detach_role_policy") = Cardinality(Resolving)
        /\ AllBefore({"detach_role_policy"}, {"delete_role"})

C21_GrantsAttempted ==
    (op = "fn.create" /\ pc = "done" /\ result = "returned") =>
        /\ Count("add_permission") = config.permissions
        /\ AllBefore({"put_object", "create_function"}, {"add_permission"})

\* C22: after a Context is constructed, whatever the iam configuration, the
\* role slot is defined: it holds a Role exactly when the configuration asks
\* for a managed role and the absent value None otherwise.
C22_RoleSlotDefined ==
    (op = "init" /\ result = "returned") =>
        /\ role \in {"Role", None}
        /\ role = "Role" <=> RoleManaged

(***************************************************************************)
(* deploy(), update() and delete() on one Function object, with nobody     *)
(* else changing the account                                               *)
(***************************************************************************)
InitLifecycle ==
    /\ Init
    /\ PlainInputs
    /\ PlainProvider
    /\ config.event_sources = <<>>
    /\ config.policy = "absent"

NextLifecycle ==
    \/ Context_init
    \/ \E o \in {"fn.deploy", "fn.delete"} : Function_call(o)
    \/ Context_update_code
    \/ Function_deploy
    \/ Function_create
    \/ Function_create_put_object
    \/ Function_create_function
    \/ Function_add_permissions
    \/ Function_update
    \/ Function_update_exec_role
    \/ Function_update_configuration
    \/ Function_delete

SpecLifecycle == InitLifecycle /\ [][NextLifecycle]_vars

\* C23: over any sequence of deploy(), update() and delete() calls on one
\* Function object, deploy() takes the update path only if the function
\* exists remotely at that moment, and the create path whenever it does not;
\* so a deploy() after deploy() and delete() creates the function again.
C23_DeployFollowsRemote ==
    [][(op = "fn.deploy" /\ pc = "fn_deploy" /\ pc' # pc) =>
            /\ pc' = "fn_update" => remoteFn # None
            /\ remoteFn = None => pc' = "fn_create"]_vars

(***************************************************************************)
(* invoke_local's context and its remaining-time accessor, as the clock    *)
(* advances in whole seconds                                               *)
(***************************************************************************)
InitFakeContext ==
    /\ Init
    /\ PlainProvider
    /\ config = [iam |-> FALSE, policy |-> "absent", n |-> 0, role |-> "absent",
                 s3 |-> "absent", permissions |-> 0, event_sources |-> <<>>]
    /\ remoteFn = None /\ remoteRole = None
    /\ lambda_config \in {[PlainLambda EXCEPT !.timeout = t] :
                             t \in {NoNum} \cup {Some(n) : n \in 0..MaxTimeout}}
    /\ path_files = {}
    /\ environ = NoEnviron

NextFakeContext ==
    \/ Context_init
    \/ \E i \in Inputs : Context_invoke_local(i)
    \/ FakeLambdaContext_get_remaining_time_in_millis
    \/ Clock_tick

SpecFakeContext == InitFakeContext /\ [][NextFakeContext]_vars

\* C24: the remaining-time accessor returns, in milliseconds, the timeout
\* minus the time elapsed since the captured start: for a timeout of T seconds
\* and E whole seconds elapsed it returns (T - E) * 1000, which is T * 1000 at
\* the start, never more than T * 1000, and 0 when E = T.
C24_RemainingTime ==
    [][(op' = "context.get_remaining_time_in_millis" /\ now' = now) =>
            LET T == context.timeout
                E == now - context.start
            IN /\ ret'.n = (T - E) * 1000
               /\ E = 0 => ret'.n = T * 1000
               /\ ret'.n <= T * 1000
               /\ E = T => ret'.n = 0]_vars

====
